---- MODULE Spec2Model ----
(***************************************************************************)
(* AQI engine of src/pipeline/ml_feature.py: unit conversion, per-pollutant *)
(* sub-index lookup, overall-AQI reduction, and the feature pipeline that   *)
(* labels raw observations with it.                                         *)
(*                                                                          *)
(* Real numbers are exact rationals <<numerator, denominator>> with a       *)
(* positive denominator.  On the concentration grids used here the IEEE     *)
(* double computation of the source and the exact computation agree (the    *)
(* truncated value and the rounded interpolation were compared value by     *)
(* value), so floor, comparison and round are modelled on the rationals.    *)
(***************************************************************************)
EXTENDS Integers, Sequences, FiniteSets, TLC

\* calculate_sub_index: its arguments, its result, the history of earlier results
VARIABLES pollutant, conc, sub_index, seen_max, reading

\* calculate_overall_aqi: its argument, line 42's list, its result
VARIABLES row, sub_indices, aqi

\* run_feature_pipeline: the raw feature group, the frame read from it, the
\* frame kept after dropna, the rows of 'aqi_ml_training_features'
VARIABLES fg_raw, df, ml_df, fg_ml

\* position of the operation under study
VARIABLE pc

subvars == <<pollutant, conc, sub_index, seen_max, reading>>

aqivars == <<row, sub_indices, aqi>>

pipevars == <<fg_raw, df, ml_df, fg_ml>>

vars == <<subvars, aqivars, pipevars, pc>>

\* np.nan, the undefined value; every other number is a rational <<n, d>>
NaN == <<>>

\* pd.isna
isna(v) == v = NaN

\* pd.notna
notna(v) == v # NaN

--------------------------------------------------------------------------
\* Rational arithmetic

Rat(n, d) == <<n, d>>

\* the integer k as a number
Num(k) == <<k, 1>>

RLeq(a, b) == a[1] * b[2] <= b[1] * a[2]

RLt(a, b) == a[1] * b[2] < b[1] * a[2]

RSub(a, b) == <<a[1] * b[2] - b[1] * a[2], a[2] * b[2]>>

RMul(a, b) == <<a[1] * b[1], a[2] * b[2]>>

\* a / b for b > 0
RDiv(a, b) == <<a[1] * b[2], a[2] * b[1]>>

RAddInt(a, k) == <<a[1] + k * a[2], a[2]>>

\* np.floor
floor(a) == a[1] \div a[2]

\* round replaced by int(): the fraction is cut off
round_down(a) == Num(a[1] \div a[2])

\* Python round() of a float: nearest integer, ties to the even one
round(a) ==
    LET q == a[1] \div a[2]
        r == a[1] % a[2]
    IN  IF 2 * r < a[2] THEN Num(q)
        ELSE IF 2 * r > a[2] THEN Num(q + 1)
        ELSE IF q % 2 = 0 THEN Num(q) ELSE Num(q + 1)

--------------------------------------------------------------------------
\* Static tables

\* molar masses, in hundredths of g/mol (28.01, 48.00, 46.01, 64.07)
MW == [co |-> 2801, o3 |-> 4800, no2 |-> 4601, so2 |-> 6407]

\* the molar volume 24.45 of ugm3_to_ppb, in hundredths
MolarVolume == 2445

\* one breakpoint row ((cl, ch), (al, ah)); cl and ch written in tenths
T(cl10, ch10, al, ah) == [cl |-> Rat(cl10, 10), ch |-> Rat(ch10, 10), al |-> al, ah |-> ah]

\* one breakpoint row ((cl, ch), (al, ah)) with integer cl and ch
U(cl, ch, al, ah) == [cl |-> Rat(cl, 1), ch |-> Rat(ch, 1), al |-> al, ah |-> ah]

\* BREAKPOINTS with a slip in one row: pm10's third index band starts at 10
BREAKPOINTS_slip ==
    [co    |-> <<T(0, 44, 0, 50), T(45, 94, 51, 100), T(95, 124, 101, 150),
                 T(125, 154, 151, 200), T(155, 304, 201, 300),
                 T(305, 404, 301, 400), T(405, 504, 401, 500)>>,
     no2   |-> <<U(0, 53, 0, 50), U(54, 100, 51, 100), U(101, 360, 101, 150),
                 U(361, 649, 151, 200), U(650, 1249, 201, 300),
                 U(1250, 1649, 301, 400), U(1650, 2049, 401, 500)>>,
     o3    |-> <<U(0, 54, 0, 50), U(55, 70, 51, 100), U(71, 85, 101, 150),
                 U(86, 105, 151, 200), U(106, 200, 201, 300)>>,
     so2   |-> <<U(0, 35, 0, 50), U(36, 75, 51, 100), U(76, 185, 101, 150),
                 U(186, 304, 151, 200), U(305, 604, 201, 300),
                 U(605, 804, 301, 400), U(805, 1004, 401, 500)>>,
     pm2_5 |-> <<T(0, 90, 0, 50), T(91, 354, 51, 100), T(355, 554, 101, 150),
                 T(555, 1504, 151, 200), T(1505, 2504, 201, 300),
                 T(2505, 3504, 301, 400), T(3505, 5004, 401, 500)>>,
     pm10  |-> <<U(0, 54, 0, 50), U(55, 154, 51, 100), U(155, 254, 10, 150),
                 U(255, 354, 151, 200), U(355, 424, 201, 300),
                 U(425, 504, 301, 400), U(505, 604, 401, 500)>>]

\* BREAKPOINTS with a gap: o3's second row starts at 56 instead of 55
BREAKPOINTS_gap ==
    [co    |-> <<T(0, 44, 0, 50), T(45, 94, 51, 100), T(95, 124, 101, 150),
                 T(125, 154, 151, 200), T(155, 304, 201, 300),
                 T(305, 404, 301, 400), T(405, 504, 401, 500)>>,
     no2   |-> <<U(0, 53, 0, 50), U(54, 100, 51, 100), U(101, 360, 101, 150),
                 U(361, 649, 151, 200), U(650, 1249, 201, 300),
                 U(1250, 1649, 301, 400), U(1650, 2049, 401, 500)>>,
     o3    |-> <<U(0, 54, 0, 50), U(56, 70, 51, 100), U(71, 85, 101, 150),
                 U(86, 105, 151, 200), U(106, 200, 201, 300)>>,
     so2   |-> <<U(0, 35, 0, 50), U(36, 75, 51, 100), U(76, 185, 101, 150),
                 U(186, 304, 151, 200), U(305, 604, 201, 300),
                 U(605, 804, 301, 400), U(805, 1004, 401, 500)>>,
     pm2_5 |-> <<T(0, 90, 0, 50), T(91, 354, 51, 100), T(355, 554, 101, 150),
                 T(555, 1504, 151, 200), T(1505, 2504, 201, 300),
                 T(2505, 3504, 301, 400), T(3505, 5004, 401, 500)>>,
     pm10  |-> <<U(0, 54, 0, 50), U(55, 154, 51, 100), U(155, 254, 101, 150),
                 U(255, 354, 151, 200), U(355, 424, 201, 300),
                 U(425, 504, 301, 400), U(505, 604, 401, 500)>>]

BREAKPOINTS ==
    [co    |-> <<T(0, 44, 0, 50), T(45, 94, 51, 100), T(95, 124, 101, 150),
                 T(125, 154, 151, 200), T(155, 304, 201, 300),
                 T(305, 404, 301, 400), T(405, 504, 401, 500)>>,
     no2   |-> <<U(0, 53, 0, 50), U(54, 100, 51, 100), U(101, 360, 101, 150),
                 U(361, 649, 151, 200), U(650, 1249, 201, 300),
                 U(1250, 1649, 301, 400), U(1650, 2049, 401, 500)>>,
     o3    |-> <<U(0, 54, 0, 50), U(55, 70, 51, 100), U(71, 85, 101, 150),
                 U(86, 105, 151, 200), U(106, 200, 201, 300)>>,
     so2   |-> <<U(0, 35, 0, 50), U(36, 75, 51, 100), U(76, 185, 101, 150),
                 U(186, 304, 151, 200), U(305, 604, 201, 300),
                 U(605, 804, 301, 400), U(805, 1004, 401, 500)>>,
     pm2_5 |-> <<T(0, 90, 0, 50), T(91, 354, 51, 100), T(355, 554, 101, 150),
                 T(555, 1504, 151, 200), T(1505, 2504, 201, 300),
                 T(2505, 3504, 301, 400), T(3505, 5004, 401, 500)>>,
     pm10  |-> <<U(0, 54, 0, 50), U(55, 154, 51, 100), U(155, 254, 101, 150),
                 U(255, 354, 151, 200), U(355, 424, 201, 300),
                 U(425, 504, 301, 400), U(505, 604, 401, 500)>>]

--------------------------------------------------------------------------
\* Unit conversion

ugm3_to_ppb(ugm3, pollutant_name) ==
    IF pollutant_name \notin DOMAIN MW THEN ugm3
    ELSE <<ugm3[1] * MolarVolume, ugm3[2] * MW[pollutant_name]>>

ugm3_to_ppm(ugm3, pollutant_name) ==
    LET ppb == ugm3_to_ppb(ugm3, pollutant_name)
    IN  <<ppb[1], ppb[2] * 1000>>

--------------------------------------------------------------------------
\* Sub-index lookup

Times10(a) == <<a[1] * 10, a[2]>>

\* the truncation done by rounding to the nearest step instead of np.floor
truncate_nearest(c, p) ==
    IF p = "pm2_5" THEN Rat(round(Times10(c))[1], 10)
    ELSE IF p = "pm10" THEN Rat(round(c)[1], 1)
    ELSE IF p = "co" THEN Rat(round(Times10(ugm3_to_ppm(c, p)))[1], 10)
    ELSE Rat(round(ugm3_to_ppb(c, p))[1], 1)

\* the truncation of lines 29-32, for a pollutant that has one
truncate(c, p) ==
    IF p = "pm2_5" THEN Rat(floor(Times10(c)), 10)
    ELSE IF p = "pm10" THEN Rat(floor(c), 1)
    ELSE IF p = "co" THEN Rat(floor(Times10(ugm3_to_ppm(c, p))), 10)
    ELSE Rat(floor(ugm3_to_ppb(c, p)), 1)

\* line 36 without the "+ al" term
interpolate_no_offset(bp, c) ==
    round(RMul(RDiv(Rat(bp.ah - bp.al, 1), RSub(bp.ch, bp.cl)), RSub(c, bp.cl)))

\* the return expression of line 36
interpolate(bp, c) ==
    round(RAddInt(RMul(RDiv(Rat(bp.ah - bp.al, 1), RSub(bp.ch, bp.cl)),
                       RSub(c, bp.cl)),
                  bp.al))

RECURSIVE walk(_, _, _)

\* the walk without line 37: nothing saturates
walk_no_saturation(rows, i, c) ==
    IF i > Len(rows) THEN NaN
    ELSE IF RLeq(rows[i].cl, c) /\ RLeq(c, rows[i].ch)
         THEN interpolate(rows[i], c)
         ELSE walk(rows, i + 1, c)

\* the walk with the row test cl <= conc < ch
walk_exclusive(rows, i, c) ==
    IF i > Len(rows)
    THEN IF RLt(rows[Len(rows)].ch, c) THEN Num(500) ELSE NaN
    ELSE IF RLeq(rows[i].cl, c) /\ RLt(c, rows[i].ch)
         THEN interpolate(rows[i], c)
         ELSE walk(rows, i + 1, c)

\* the for loop of lines 34-36 from row i on, then lines 37-38
walk(rows, i, c) ==
    IF i > Len(rows)
    THEN IF RLt(rows[Len(rows)].ch, c) THEN Num(500) ELSE NaN
    ELSE IF RLeq(rows[i].cl, c) /\ RLeq(c, rows[i].ch)
         THEN interpolate(rows[i], c)
         ELSE walk(rows, i + 1, c)

\* calculate_sub_index with a lower clamp: a value below the table counts as 0
calculate_sub_index_clamped(c, p) ==
    IF isna(c) THEN NaN
    ELSE IF p \in {"pm2_5", "pm10", "co", "no2", "o3", "so2"}
         THEN IF RLt(truncate(c, p), BREAKPOINTS[p][1].cl) THEN Num(0)
              ELSE walk(BREAKPOINTS[p], 1, truncate(c, p))
         ELSE NaN

calculate_sub_index(c, p) ==
    IF isna(c) THEN NaN
    ELSE IF p \in {"pm2_5", "pm10", "co", "no2", "o3", "so2"}
         THEN walk(BREAKPOINTS[p], 1, truncate(c, p))
         ELSE NaN

--------------------------------------------------------------------------
\* Overall AQI reduction

\* the list of line 41
pollutants == <<"pm2_5", "pm10", "o3", "co", "no2", "so2">>

\* the list comprehension of line 42, from the i-th pollutant on
RECURSIVE sub_indices_from(_, _)
sub_indices_from(r, i) ==
    IF i > Len(pollutants) THEN <<>>
    ELSE IF pollutants[i] \in DOMAIN r
         THEN <<calculate_sub_index(r[pollutants[i]], pollutants[i])>>
                  \o sub_indices_from(r, i + 1)
         ELSE sub_indices_from(r, i + 1)

\* Python max() of a non-empty list: the first largest element
RECURSIVE max_from(_, _, _)
max_from(list, i, best) ==
    IF i > Len(list) THEN best
    ELSE max_from(list, i + 1, IF RLt(best, list[i]) THEN list[i] ELSE best)

\* max() replaced by taking the first element
max_first(list) == list[1]

max(list) == max_from(list, 2, list[1])

\* lines 43-44 returning 0 instead of NaN for an empty list
reduce_zero(indices) ==
    LET valid_indices == SelectSeq(indices, notna)
    IN  IF valid_indices # <<>> THEN max(valid_indices) ELSE Num(0)

\* lines 43-44: the largest of the defined entries of line 42's list
reduce(indices) ==
    LET valid_indices == SelectSeq(indices, notna)
    IN  IF valid_indices # <<>> THEN max(valid_indices) ELSE NaN

calculate_overall_aqi(r) == reduce(sub_indices_from(r, 1))

\* the variables of calculate_overall_aqi while another operation is studied
AqiIdle == row = <<>> /\ sub_indices = <<>> /\ aqi = NaN

\* the variables of calculate_sub_index while another operation is studied
SubIdle ==
    /\ pollutant = "pm2_5" /\ conc = NaN /\ sub_index = NaN
    /\ seen_max = NaN /\ reading = 0

\* the variables of run_feature_pipeline while another operation is studied
PipeIdle == fg_raw = <<>> /\ df = <<>> /\ ml_df = <<>> /\ fg_ml = {}

--------------------------------------------------------------------------
\* Feature pipeline.  A frame is a sequence of rows, a row a function from
\* column names to values; a timestamp is <<day, hour>> or NaN (NaT).

\* df.sort_values(by="timestamp_int"): insertion of one row into a sorted frame
RECURSIVE insert_sorted(_, _)
insert_sorted(frame, r) ==
    IF frame = <<>> THEN <<r>>
    ELSE IF RLt(r["timestamp_int"], Head(frame)["timestamp_int"])
         THEN <<r>> \o frame
         ELSE <<Head(frame)>> \o insert_sorted(Tail(frame), r)

RECURSIVE sort_values(_)
sort_values(frame) ==
    IF frame = <<>> THEN <<>>
    ELSE insert_sorted(sort_values(Tail(frame)), Head(frame))

\* r with column c set to v
with_column(r, c, v) == [k \in DOMAIN r \cup {c} |-> IF k = c THEN v ELSE r[k]]

\* .dt.hour
dt_hour(t) == IF isna(t) THEN NaN ELSE Num(t[2])

\* .dt.day
dt_day(t) == IF isna(t) THEN NaN ELSE Num(t[1])

\* lines 68-75 for one row
transform_row(r) ==
    with_column(
        with_column(
            with_column(r, "calculated_aqi", calculate_overall_aqi(r)),
            "hour_of_day", dt_hour(r["timestamp_utc"])),
        "day_of_month", dt_day(r["timestamp_utc"]))

\* lines 78-87
final_ml_features ==
    {"timestamp_int", "pm2_5", "pm10", "o3", "temp",
     "hour_of_day", "day_of_month", "calculated_aqi"}

\* df[final_ml_features] for one row
select_columns(r) == [c \in final_ml_features |-> r[c]]

has_na(r) == \E c \in DOMAIN r : isna(r[c])

\* dropna(subset=['calculated_aqi']): only the label is required
dropna_label_only(frame) == SelectSeq(frame, LAMBDA r : notna(r["calculated_aqi"]))

\* DataFrame.dropna(): the rows without any missing value, in order
dropna(frame) == SelectSeq(frame, LAMBDA r : ~has_na(r))

\* lines 89-90
ml_frame(frame) ==
    dropna([i \in 1..Len(frame) |-> select_columns(transform_row(frame[i]))])

\* fg_ml.insert: rows replace stored rows with the same primary key
insert(stored, frame) ==
    {s \in stored : \A i \in 1..Len(frame) : frame[i]["timestamp_int"] # s["timestamp_int"]}
        \cup {frame[i] : i \in 1..Len(frame)}

--------------------------------------------------------------------------
\* Concentration grids: the inputs the sub-index specification draws from

\* grid points below zero
Below == 2

\* grid points beyond the first concentration that saturates
Above == 3

Pollutants == {"pm2_5", "pm10", "o3", "co", "no2", "so2"}

\* a key of the provider's records that is not one of the recognized six
Unknown == "nh3"

\* grid spacing in ug/m3, per pollutant
GridStep == [pm2_5 |-> Rat(1, 20), pm10 |-> Rat(1, 2), o3 |-> Rat(1, 2),
             co |-> Rat(25, 1), no2 |-> Rat(1, 2), so2 |-> Rat(1, 1), nh3 |-> Rat(1, 1)]

\* the i-th grid concentration of pollutant p, in ug/m3
GridConc(p, i) == <<i * GridStep[p][1], GridStep[p][2]>>

\* the highest tabulated concentration bound of pollutant p
TopCh(p) == BREAKPOINTS[p][Len(BREAKPOINTS[p])].ch

\* the lowest tabulated concentration bound of pollutant p
BottomCl(p) == BREAKPOINTS[p][1].cl

\* the ug/m3 value whose converted value is the rational v (inverse of the conversion)
FromLookupUnit(v, p) ==
    IF p \notin DOMAIN MW THEN v
    ELSE IF p = "co" THEN <<v[1] * MW[p] * 1000, v[2] * MolarVolume>>
    ELSE <<v[1] * MW[p], v[2] * MolarVolume>>

\* index of the first grid point at or above the first lookup value beyond the table
GridTop(p) ==
    IF p \notin Pollutants THEN 0
    ELSE LET next == <<TopCh(p)[1] + 1, TopCh(p)[2]>>
             q == RDiv(FromLookupUnit(next, p), GridStep[p])
         IN  -((-q[1]) \div q[2])

GridIndex(p) == (-Below) .. (GridTop(p) + Above)

--------------------------------------------------------------------------
\* Specification of calculate_sub_index: one pollutant, readings taken at
\* increasing concentration; seen_max is the history of the largest defined
\* sub-index returned for an earlier (lower) reading.

\* the index standing for a reading whose concentration is missing (NaN)
MissingReading == (-Below) - 1

ConcOf(p, i) == IF i = MissingReading THEN NaN ELSE GridConc(p, i)

Init ==
    /\ pollutant \in Pollutants \cup {Unknown}
    /\ reading \in GridIndex(pollutant) \cup {MissingReading}
    /\ conc = ConcOf(pollutant, reading)
    /\ sub_index = NaN
    /\ seen_max = NaN
    /\ pc = "ready"
    /\ AqiIdle
    /\ PipeIdle

\* one call calculate_sub_index(conc, pollutant)
Call ==
    /\ pc = "ready"
    /\ sub_index' = calculate_sub_index(conc, pollutant)
    /\ pc' = "returned"
    /\ UNCHANGED <<pollutant, conc, seen_max, reading, aqivars, pipevars>>

\* the caller moves on to the next higher reading of the same pollutant
NextReading ==
    /\ pc = "returned"
    /\ reading # MissingReading
    /\ reading + 1 \in GridIndex(pollutant)
    /\ reading' = reading + 1
    /\ conc' = ConcOf(pollutant, reading')
    /\ seen_max' = IF isna(sub_index) THEN seen_max
                   ELSE IF isna(seen_max) \/ RLt(seen_max, sub_index) THEN sub_index
                   ELSE seen_max
    /\ sub_index' = NaN
    /\ pc' = "ready"
    /\ UNCHANGED <<pollutant, aqivars, pipevars>>

Next == Call \/ NextReading

Spec == Init /\ [][Next]_vars

TypeOK ==
    /\ pollutant \in Pollutants \cup {Unknown}
    /\ pc \in {"ready", "returned", "start", "extracted", "transformed", "loaded"}
    /\ isna(sub_index) \/ (sub_index[1] \in 0..500 /\ sub_index[2] = 1)

--------------------------------------------------------------------------
\* Properties of calculate_sub_index (specification Spec)

Returned == pc = "returned"

\* a call on a recognized pollutant with a defined concentration has returned
ReturnedDefined == Returned /\ pollutant \in Pollutants /\ notna(conc)

\* floor of the rational x to a multiple of 1/den
FloorTo(x, den) == Rat((x[1] * den) \div x[2], den)

\* the truncation rules as the specification words them: pm2_5 floor to one
\* decimal in ug/m3, pm10 floor to integer in ug/m3, co to ppm (molar mass
\* 28.01, constant 24.45) then floor to one decimal, no2/o3/so2 to ppb then
\* floor to integer
TruncationRule(c, p) ==
    CASE p = "pm2_5" -> FloorTo(c, 10)
      [] p = "pm10"  -> FloorTo(c, 1)
      [] p = "co"    -> FloorTo(<<c[1] * 2445, c[2] * 2801 * 1000>>, 10)
      [] p = "no2"   -> FloorTo(<<c[1] * 2445, c[2] * 4601>>, 1)
      [] p = "o3"    -> FloorTo(<<c[1] * 2445, c[2] * 4800>>, 1)
      [] p = "so2"   -> FloorTo(<<c[1] * 2445, c[2] * 6407>>, 1)

\* the truncated value of the current reading
Truncated == TruncationRule(conc, pollutant)

InRow(t, bp) == RLeq(bp.cl, t) /\ RLeq(t, bp.ch)

\* ((ah-al)/(ch-cl))*(t-cl)+al as an exact rational
Exact(bp, t) ==
    LET dc == RSub(bp.ch, bp.cl)
        dt == RSub(t, bp.cl)
    IN  <<(bp.ah - bp.al) * dt[1] * dc[2] + bp.al * dt[2] * dc[1], dt[2] * dc[1]>>

Abs(n) == IF n < 0 THEN -n ELSE n

\* the integer number k is a nearest integer of the rational x
IsNearest(k, x) == k[2] = 1 /\ 2 * Abs(k[1] * x[2] - x[1]) <= x[2]

Rows(p) == {BREAKPOINTS[p][i] : i \in 1..Len(BREAKPOINTS[p])}

\* C2: for a recognized pollutant and a defined concentration, when the value
\* truncated by the pollutant's rule lies in a breakpoint row, the sub-index is
\* the linear interpolation of that row rounded to the nearest integer.
C2_InterpolatedRounded ==
    ReturnedDefined =>
        \A bp \in Rows(pollutant) :
            InRow(Truncated, bp) =>
                notna(sub_index) /\ IsNearest(sub_index, Exact(bp, Truncated))

\* a co reading truncated to 1.1 ppm: the interpolation is exactly 12.5
C2_Witness ==
    /\ ReturnedDefined /\ pollutant = "co"
    /\ Truncated = Rat(11, 10)
    /\ sub_index = Num(12)

\* C3: whenever the truncated concentration exceeds the highest tabulated ch
\* of the pollutant's table, the sub-index is exactly 500.
C3_Saturates ==
    (ReturnedDefined /\ RLt(TopCh(pollutant), Truncated)) => sub_index = Num(500)

\* an o3 reading above 200 ppb, whose last tabulated band ends at 300
C3_Witness ==
    /\ ReturnedDefined /\ pollutant = "o3"
    /\ RLt(Rat(200, 1), Truncated)
    /\ BREAKPOINTS["o3"][Len(BREAKPOINTS["o3"])].ah = 300
    /\ sub_index = Num(500)

C6_Monotone ==
    (Returned /\ notna(sub_index) /\ notna(seen_max)) => RLeq(seen_max, sub_index)

\* a reading that saturates after lower readings that were still in the table
C6_Witness ==
    /\ Returned /\ notna(seen_max)
    /\ sub_index = Num(500)
    /\ RLt(seen_max, sub_index)

\* C7: a concentration whose truncated value lies in a row gets a sub-index
\* inside the row's index band [al, ah].
C7_WithinBand ==
    ReturnedDefined =>
        \A bp \in Rows(pollutant) :
            InRow(Truncated, bp) =>
                /\ notna(sub_index)
                /\ RLeq(Num(bp.al), sub_index)
                /\ RLeq(sub_index, Num(bp.ah))

\* a pm2_5 reading strictly inside the row (9.1, 35.4) -> (51, 100)
C7_Witness ==
    /\ ReturnedDefined /\ pollutant = "pm2_5"
    /\ RLt(Rat(91, 10), Truncated) /\ RLt(Truncated, Rat(354, 10))
    /\ RLeq(Num(51), sub_index) /\ RLeq(sub_index, Num(100))

\* C8: at truncated value ch of a row the sub-index is the row's ah, at
\* truncated value cl it is the row's al, and across the boundary into a row
\* the sub-index steps by no more than one unit from the readings below it.
C8_BoundaryContinuity ==
    ReturnedDefined =>
        \A i \in 1..Len(BREAKPOINTS[pollutant]) :
            LET bp == BREAKPOINTS[pollutant][i]
            IN  /\ Truncated = bp.ch => sub_index = Num(bp.ah)
                /\ Truncated = bp.cl => sub_index = Num(bp.al)
                /\ (i > 1 /\ Truncated = bp.cl) =>
                       /\ bp.al - BREAKPOINTS[pollutant][i - 1].ah <= 1
                       /\ notna(seen_max) => sub_index[1] - seen_max[1] <= 1

\* the first no2 reading of the second row, right after the last of the first
C8_Witness ==
    /\ ReturnedDefined /\ pollutant = "no2"
    /\ Truncated = Rat(54, 1)
    /\ seen_max = Num(50)
    /\ sub_index = Num(51)

\* the rationals a and b are the same number
SameNumber(a, b) == a[1] * b[2] = b[1] * a[2]

\* the truncation step of a pollutant as the specification words it: one
\* decimal for pm2_5 and co, one unit for pm10, no2, o3 and so2
TruncationStep(p) == IF p \in {"pm2_5", "co"} THEN Rat(1, 10) ELSE Rat(1, 1)

\* C11: every non-negative defined concentration of a recognized pollutant
\* yields a defined integer sub-index in 0..500; each row's cl is exactly one
\* truncation step above the previous row's ch, so no truncated value falls
\* between two rows; an undefined result arises only from a missing or a
\* negative concentration.
C11_NoGaps ==
    (Returned /\ pollutant \in Pollutants) =>
        /\ (notna(conc) /\ conc[1] >= 0) =>
               /\ notna(sub_index)
               /\ sub_index[2] = 1 /\ sub_index[1] \in 0..500
        /\ isna(sub_index) => (isna(conc) \/ conc[1] < 0)
        /\ \A i \in 2..Len(BREAKPOINTS[pollutant]) :
               SameNumber(RSub(BREAKPOINTS[pollutant][i].cl,
                               BREAKPOINTS[pollutant][i - 1].ch),
                          TruncationStep(pollutant))
        /\ (notna(conc) /\ RLeq(BottomCl(pollutant), Truncated)
                /\ RLeq(Truncated, TopCh(pollutant))) =>
               \E bp \in Rows(pollutant) : InRow(Truncated, bp)

\* an o3 reading truncated to 55 ppb, the first value after the first row's
\* ch of 54, right after a reading that was still in the first row
C11_Witness ==
    /\ ReturnedDefined /\ pollutant = "o3"
    /\ conc[1] >= 0
    /\ Truncated = Rat(55, 1)
    /\ seen_max = Num(50)
    /\ sub_index = Num(51)

--------------------------------------------------------------------------
\* Specification of calculate_overall_aqi: one record, one call

\* concentrations per key that a record may carry
RowLevels == 2

\* candidate concentrations in ug/m3 per key; a record uses the first RowLevels
LevelConcs ==
    [pm2_5 |-> <<Rat(12, 1), Rat(-1, 1), Rat(6000, 10), Rat(91, 10)>>,
     pm10  |-> <<Rat(600, 1), Rat(-1, 2), Rat(54, 1), Rat(700, 1)>>,
     o3    |-> <<Rat(100, 1), Rat(-3, 1), Rat(500, 1), Rat(0, 1)>>,
     co    |-> <<Rat(5000, 1), Rat(60000, 1), Rat(-25, 1), Rat(1000, 1)>>,
     no2   |-> <<Rat(-2, 1), Rat(150, 1), Rat(4000, 1), Rat(20, 1)>>,
     so2   |-> <<Rat(300, 1), Rat(-1, 1), Rat(2700, 1), Rat(50, 1)>>,
     nh3   |-> <<Rat(7, 1), Rat(900, 1), Rat(-4, 1), Rat(0, 1)>>]

\* marks a key that the record does not have (used only to build records)
Absent == <<0, 0>>

\* the values a record may carry under key k, or Absent
KeyValues(k) == {Absent, NaN} \cup {LevelConcs[k][j] : j \in 1..RowLevels}

\* the record whose keys are the non-Absent fields of full
RecordOf(full) == [k \in {k \in DOMAIN full : full[k] # Absent} |-> full[k]]

Records ==
    {RecordOf(full) :
        full \in [pm2_5 : KeyValues("pm2_5"), pm10 : KeyValues("pm10"),
                  o3 : KeyValues("o3"), co : KeyValues("co"),
                  no2 : KeyValues("no2"), so2 : KeyValues("so2"),
                  nh3 : {Absent, LevelConcs["nh3"][1]}]}

InitAqi ==
    /\ row \in Records
    /\ sub_indices = <<>>
    /\ aqi = NaN
    /\ pc = "ready"
    /\ SubIdle
    /\ PipeIdle

\* one call calculate_overall_aqi(row)
CallOverall ==
    /\ pc = "ready"
    /\ sub_indices' = sub_indices_from(row, 1)
    /\ aqi' = calculate_overall_aqi(row)
    /\ pc' = "returned"
    /\ UNCHANGED <<row, subvars, pipevars>>

NextAqi == CallOverall

SpecAqi == InitAqi /\ [][NextAqi]_vars

\* the defined sub-indices of the recognized pollutants that are keys of r
DefinedSubIndices(r) ==
    {calculate_sub_index(r[p], p) : p \in DOMAIN r \cap Pollutants} \ {NaN}

IsMaximumOf(m, S) == m \in S /\ \A v \in S : RLeq(v, m)

\* line 42's list as it comes out when the pollutants are processed in
\* another order: every rearrangement of the list
Reordered(list) ==
    {[i \in 1..Len(list) |-> list[f[i]]] : f \in Permutations(1..Len(list))}

\* C1: the overall AQI is the maximum of the defined sub-indices of the
\* recognized pollutants that are keys of the record, whatever the order in
\* which the pollutants are processed; absent, undefined and unrecognized keys
\* contribute nothing; a record with one pollutant yields its sub-index.
C1_MaxOfDefined ==
    Returned =>
        /\ DefinedSubIndices(row) # {} => IsMaximumOf(aqi, DefinedSubIndices(row))
        /\ \A list \in Reordered(sub_indices) : reduce(list) = aqi
        /\ \A p \in Pollutants :
               (DOMAIN row \cap Pollutants = {p}
                    /\ notna(calculate_sub_index(row[p], p))) =>
                   aqi = calculate_sub_index(row[p], p)

\* a record with an unrecognized key, an undefined and an absent pollutant,
\* whose largest sub-index is not the first one processed
C1_Witness ==
    /\ Returned
    /\ Unknown \in DOMAIN row
    /\ "o3" \notin DOMAIN row
    /\ "no2" \in DOMAIN row /\ isna(calculate_sub_index(row["no2"], "no2"))
    /\ Len(sub_indices) >= 3
    /\ notna(sub_indices[1]) /\ RLt(sub_indices[1], aqi)

\* C5: the overall AQI is undefined if and only if no recognized pollutant of
\* the record produces a defined sub-index.
C5_UndefinedIffNoneDefined ==
    Returned =>
        (isna(aqi) <=>
            \A p \in DOMAIN row \cap Pollutants : isna(calculate_sub_index(row[p], p)))

\* a record that has all six pollutants, each missing or below range, and an
\* unrecognized key with a value
C5_Witness ==
    /\ Returned
    /\ Pollutants \subseteq DOMAIN row
    /\ Unknown \in DOMAIN row /\ notna(row[Unknown])
    /\ sub_indices = <<NaN, NaN, NaN, NaN, NaN, NaN>>
    /\ isna(aqi)

\* the record {pm2_5: 12.0, pm10: 600, co: 5000}
ScenarioRow == [pm2_5 |-> Rat(12, 1), pm10 |-> Rat(600, 1), co |-> Rat(5000, 1)]

\* C9: for the record {pm2_5: 12.0, pm10: 600, co: 5000} the sub-indices are
\* 56, 496 and 49 (co floored to 4.3 ppm, in row (0.0, 4.4) -> (0, 50)) and the
\* overall AQI is 496.
C9_Scenario ==
    (Returned /\ row = ScenarioRow) =>
        /\ sub_indices = <<Num(56), Num(496), Num(49)>>
        /\ TruncationRule(row["co"], "co") = Rat(43, 10)
        /\ InRow(Rat(43, 10), BREAKPOINTS["co"][1])
        /\ aqi = Num(496)

\* the call on the scenario record has returned
C9_Witness ==
    /\ Returned
    /\ DOMAIN row = {"pm2_5", "pm10", "co"}
    /\ row["pm2_5"] = Rat(12, 1) /\ row["pm10"] = Rat(600, 1) /\ row["co"] = Rat(5000, 1)
    /\ Len(sub_indices) = 3

--------------------------------------------------------------------------
\* Specification of run_feature_pipeline: a raw feature group of hourly
\* observations, read, transformed and loaded once

\* observations in the raw feature group
MaxRows == 2

\* what one hourly observation may carry; timed tells whether its
\* timestamp_utc is present
Readings ==
    [timed : BOOLEAN,
     pm2_5 : {NaN, Rat(12, 1), Rat(-1, 1)},
     pm10 : {NaN, Rat(-1, 2)},
     o3 : {NaN, Rat(-3, 1)},
     co : {NaN, Rat(5000, 1)},
     temp : {NaN, Rat(251, 10)}]

\* the observation of hour ts (its primary key) with the readings m; the
\* provider's no2 and so2 are missing
Observation(ts, m) ==
    [timestamp_int |-> Num(ts),
     timestamp_utc |-> IF m.timed THEN <<14 + ts, 23 - ts>> ELSE NaN,
     pm2_5 |-> m.pm2_5, pm10 |-> m.pm10, o3 |-> m.o3,
     co |-> m.co, no2 |-> NaN, so2 |-> NaN,
     temp |-> m.temp]

\* the raw feature group of the readings ms, stored newest first
RawGroup(ms) == [i \in 1..Len(ms) |-> Observation(Len(ms) + 1 - i, ms[i])]

InitPipeline ==
    /\ \E n \in 1..MaxRows : \E ms \in [1..n -> Readings] : fg_raw = RawGroup(ms)
    /\ df = <<>>
    /\ ml_df = <<>>
    /\ fg_ml = {}
    /\ pc = "start"
    /\ SubIdle
    /\ AqiIdle

\* lines 60-62: read the raw feature group and sort by timestamp_int
Extract ==
    /\ pc = "start"
    /\ df' = sort_values(fg_raw)
    /\ pc' = "extracted"
    /\ UNCHANGED <<fg_raw, ml_df, fg_ml, subvars, aqivars>>

\* lines 68-90: label, time features, column selection, dropna
Transform ==
    /\ pc = "extracted"
    /\ ml_df' = ml_frame(df)
    /\ pc' = "transformed"
    /\ UNCHANGED <<fg_raw, df, fg_ml, subvars, aqivars>>

\* lines 99-108: insert into 'aqi_ml_training_features'
Load ==
    /\ pc = "transformed"
    /\ fg_ml' = insert(fg_ml, ml_df)
    /\ pc' = "loaded"
    /\ UNCHANGED <<fg_raw, df, ml_df, subvars, aqivars>>

NextPipeline == Extract \/ Transform \/ Load

SpecPipeline == InitPipeline /\ [][NextPipeline]_vars

RawRows == {fg_raw[i] : i \in 1..Len(fg_raw)}

\* the raw observation has a defined overall AQI and defined pm2_5, pm10, o3,
\* temp, timestamp (hence hour and day) and timestamp_int
Complete(o) ==
    /\ \E p \in Pollutants : notna(calculate_sub_index(o[p], p))
    /\ \A c \in {"timestamp_int", "timestamp_utc", "pm2_5", "pm10", "o3", "temp"} :
           notna(o[c])

\* the stored row s carries the values of the raw observation o unchanged
RowOf(s, o) ==
    /\ \A c \in {"timestamp_int", "pm2_5", "pm10", "o3", "temp"} : s[c] = o[c]
    /\ s["hour_of_day"] = Num(o["timestamp_utc"][2])
    /\ s["day_of_month"] = Num(o["timestamp_utc"][1])
    /\ notna(s["calculated_aqi"])
    /\ IsMaximumOf(s["calculated_aqi"], DefinedSubIndices(o))

\* C10: every row inserted into 'aqi_ml_training_features' has a defined label
\* and defined feature values; a raw observation with an undefined overall AQI
\* or a missing feature is dropped, never imputed; every raw observation that
\* has all of them is inserted.
C10_OnlyCompleteRowsInserted ==
    pc = "loaded" =>
        /\ \A s \in fg_ml :
               /\ DOMAIN s = final_ml_features
               /\ \A c \in final_ml_features : notna(s[c])
               /\ \E o \in RawRows : Complete(o) /\ RowOf(s, o)
        /\ \A o \in RawRows :
               IF Complete(o)
               THEN \E s \in fg_ml : RowOf(s, o)
               ELSE \A s \in fg_ml : s["timestamp_int"] # o["timestamp_int"]

\* a load that inserted one observation and dropped another one whose features
\* are all present but whose overall AQI is undefined
C10_Witness ==
    /\ pc = "loaded"
    /\ Cardinality(fg_ml) = 1
    /\ \E o \in RawRows :
           /\ ~Complete(o)
           /\ \A c \in {"timestamp_utc", "pm2_5", "pm10", "o3", "temp"} : notna(o[c])
           /\ \A s \in fg_ml : s["timestamp_int"] # o["timestamp_int"]

====
